---- MODULE Spec2Model ----
(***************************************************************************)
(* A model of mdstat.c, the /proc/mdstat parser and query layer of mdadm.  *)
(*                                                                         *)
(* C strings are sequences of one-character strings; a NULL char pointer   *)
(* is the empty sequence (no token and no stored string is ever empty).    *)
(* A linked list of struct mdstat_ent is a sequence of records, the head   *)
(* of the list first.                                                      *)
(***************************************************************************)
EXTENDS Integers, Sequences, FiniteSets, TLC

VARIABLES
    file,        \* the logical lines conf_line() yields from /proc/mdstat
    mdstat_fd,   \* static int mdstat_fd: the cached descriptor, -1 when absent
    fds,         \* descriptors the module has open (cached one included)
    call,        \* the API call that returned last, and its arguments
    rv,          \* list returned by the last call (<<>> is NULL)
    all,         \* the list mdstat_read built before the start-flag reversal
    heap,        \* records allocated by the last call and not freed on return
    res,         \* integer result of the last mdstat_wait / mddev_busy
    selected,    \* descriptors the last wait handed to select/pselect
    pc,          \* line parser: position in the loop of lines 209-336
    ps,          \* line parser: the record under construction, in_devs, ...
    w,           \* line parser: the token the for loop of line 241 is at
    ntok         \* line parser: tokens of the line consumed so far

vars == <<file, mdstat_fd, fds, call, rv, all, heap, res, selected,
          pc, ps, w, ntok>>

apiVars == <<file, mdstat_fd, fds, call, rv, all, heap, res, selected>>
lineVars == <<pc, ps, w, ntok>>

----------------------------------------------------------------------------
(* Bounds of the model.                                                    *)

MaxLines == 3
MaxMembers == 2
MaxTokens == 4
MaxFd == 2

----------------------------------------------------------------------------
(* Program constants.                                                      *)

RESYNC_NONE == -1
RESYNC_DELAYED == -2
RESYNC_PENDING == -3
RESYNC_REMOTE == -4
DevnmSize == 32

NULL == <<>>

----------------------------------------------------------------------------
(* libc string functions on character sequences.                           *)

Min(a, b) == IF a < b THEN a ELSE b

Digits == {"0", "1", "2", "3", "4", "5", "6", "7", "8", "9"}

isdigit(c) == c \in Digits

DigitVal(c) ==
    CASE c = "0" -> 0 [] c = "1" -> 1 [] c = "2" -> 2 [] c = "3" -> 3
      [] c = "4" -> 4 [] c = "5" -> 5 [] c = "6" -> 6 [] c = "7" -> 7
      [] c = "8" -> 8 [] c = "9" -> 9

\* s + k: the string that starts k characters into s
StrFrom(s, k) == SubSeq(s, k + 1, Len(s))

\* s[i] with C's 0-based index; the terminating NUL reads as ""
CharAt(s, i) == IF i >= 0 /\ i < Len(s) THEN s[i + 1] ELSE ""

\* strncmp(a, b, n) == 0
strncmp0(a, b, n) == SubSeq(a, 1, Min(n, Len(a))) = SubSeq(b, 1, Min(n, Len(b)))

\* strcmp(a, b) == 0
strcmp0(a, b) == a = b

\* strchr(s, c): 0-based offset of the first c in s, -1 for NULL
strchr(s, c) ==
    IF \E i \in 1..Len(s) : s[i] = c
    THEN (CHOOSE i \in 1..Len(s) : s[i] = c /\ \A j \in 1..(i - 1) : s[j] # c) - 1
    ELSE -1

\* strndup(s, n)
strndup(s, n) == SubSeq(s, 1, Min(n, Len(s)))

RECURSIVE AtoiDigits(_, _)
AtoiDigits(s, acc) ==
    IF s # <<>> /\ isdigit(Head(s))
    THEN AtoiDigits(Tail(s), 10 * acc + DigitVal(Head(s)))
    ELSE acc

\* atoi(s): optional sign, then the leading decimal digits
atoi(s) ==
    IF s # <<>> /\ Head(s) = "-" THEN 0 - AtoiDigits(Tail(s), 0)
    ELSE IF s # <<>> /\ Head(s) = "+" THEN AtoiDigits(Tail(s), 0)
    ELSE AtoiDigits(s, 0)

\* strcmp(s + l - k, suffix) == 0 for a suffix of k characters
EndsWith(s, suffix) ==
    Len(s) >= Len(suffix) /\ StrFrom(s, Len(s) - Len(suffix)) = suffix

----------------------------------------------------------------------------
(* String literals of the source (S_), device names (N_) and the tokens    *)
(* of /proc/mdstat lines the model draws its input from (T_).             *)

T_active == <<"a", "c", "t", "i", "v", "e">>
T_inactive == <<"i", "n", "a", "c", "t", "i", "v", "e">>
T_bitmap == <<"b", "i", "t", "m", "a", "p", ":">>
T_readonly == <<"(", "r", "e", "a", "d", "-", "o", "n", "l", "y", ")">>
T_raid1 == <<"r", "a", "i", "d", "1">>
T_blocks == <<"b", "l", "o", "c", "k", "s">>
T_sda == <<"s", "d", "a", "[", "0", "]">>
T_sdb == <<"s", "d", "b", "[", "1", "]">>
T_md0m == <<"m", "d", "0", "[", "0", "]">>
T_super == <<"s", "u", "p", "e", "r">>
T_v12 == <<"1", ".", "2">>
T_extcont == <<"e", "x", "t", "e", "r", "n", "a", "l", ":", "i", "m", "s", "m">>
T_extsub == <<"e", "x", "t", "e", "r", "n", "a", "l", ":", "/", "m", "d", "1", "/", "0">>
T_slots == <<"[", "2", "/", "1", "]">>
T_pattern == <<"[", "U", "_", "]">>
T_patopen == <<"[", "U", "U">>
T_patodd == <<"[", "U", "2", "]">>
T_resyncpct == <<"r", "e", "s", "y", "n", "c", "=", "3", "7", "%">>
T_reshapeneg == <<"r", "e", "s", "h", "a", "p", "e", "=", "-", "1", "%">>
T_recovdelayed == <<"r", "e", "c", "o", "v", "e", "r", "y", "=", "D", "E", "L", "A", "Y", "E", "D">>
T_resync == <<"r", "e", "s", "y", "n", "c">>
T_pct == <<"3", "7", ".", "4", "%">>
S_md == <<"m", "d">>
S_re == <<"r", "e">>
S_external == <<"e", "x", "t", "e", "r", "n", "a", "l", ":">>
S_resync == <<"r", "e", "s", "y", "n", "c">>
S_reshape == <<"r", "e", "s", "h", "a", "p", "e">>
S_recovery == <<"r", "e", "c", "o", "v", "e", "r", "y">>
S_check == <<"c", "h", "e", "c", "k">>
S_DELAYED == <<"=", "D", "E", "L", "A", "Y", "E", "D">>
S_PENDING == <<"=", "P", "E", "N", "D", "I", "N", "G">>
S_REMOTE == <<"=", "R", "E", "M", "O", "T", "E">>
S_Personalities == <<"P", "e", "r", "s", "o", "n", "a", "l", "i", "t", "i", "e", "s">>
S_read_ahead == <<"r", "e", "a", "d", "_", "a", "h", "e", "a", "d">>
S_unused == <<"u", "n", "u", "s", "e", "d">>
N_md0 == <<"m", "d", "0">>
N_md1 == <<"m", "d", "1">>
N_md2 == <<"m", "d", "2">>
N_md_d1 == <<"m", "d", "_", "d", "1">>
N_mdx == <<"m", "d", "x">>
N_sda == <<"s", "d", "a">>
N_sdb == <<"s", "d", "b">>

----------------------------------------------------------------------------
(* struct mdstat_ent as initialised by mdstat_read for an accepted line.   *)

NewEnt(devnm) ==
    [devnm |-> devnm, level |-> NULL, pattern |-> NULL,
     percent |-> RESYNC_NONE, active |-> -1, resync |-> 0,
     metadata_version |-> NULL, raid_disks |-> 0, devcnt |-> 0,
     members |-> <<>>]

\* Mutant: the third character of the name is not tested
AcceptedLine_anyThird(first) ==
    /\ ~strcmp0(first, S_Personalities)
    /\ ~strcmp0(first, S_read_ahead)
    /\ ~strcmp0(first, S_unused)
    /\ ~(~strncmp0(first, S_md, 2) \/ Len(first) >= DevnmSize)

\* The test of lines 215-225: is the line an md line?
AcceptedLine(first) ==
    /\ ~strcmp0(first, S_Personalities)
    /\ ~strcmp0(first, S_read_ahead)
    /\ ~strcmp0(first, S_unused)
    /\ ~(\/ ~strncmp0(first, S_md, 2)
         \/ Len(first) >= DevnmSize
         \/ (CharAt(first, 2) # "_" /\ ~isdigit(CharAt(first, 2))))

\* Mutant: 1 is returned for a token that is not a device too
add_member_devname_counts(m, name) ==
    LET t == strchr(name, "[")
    IN  IF t = -1
        THEN [members |-> m, ret |-> 1]
        ELSE [members |-> <<strndup(name, t)>> \o m, ret |-> 1]

\* add_member_devname: the member list with the name pushed at its head,
\* and the function's return value
add_member_devname(m, name) ==
    LET t == strchr(name, "[")
    IN  IF t = -1
        THEN [members |-> m, ret |-> 0]
        ELSE [members |-> <<strndup(name, t)>> \o m, ret |-> 1]

\* Mutant: the walk does not stop at the insert_here found so far
RECURSIVE WalkInsertHere_past(_, _, _, _, _)
WalkInsertHere_past(lst, ih, insert_here, tok, ep) ==
    IF /\ ih <= Len(lst)
       /\ (Len(lst[ih].devnm) # ep \/ ~strncmp0(lst[ih].devnm, tok, ep))
    THEN WalkInsertHere_past(lst, ih + 1, insert_here, tok, ep)
    ELSE ih

\* The walk of lines 273-279: ih starts at &all and moves down the list
\* until it is insert_here, the end of the list, or at a record whose devnm
\* is the first ep characters of the token.  A position k stands for the
\* link that points at the k-th record; Len(lst) + 1 is the last, NULL, link.
RECURSIVE WalkInsertHere(_, _, _, _, _)
WalkInsertHere(lst, ih, insert_here, tok, ep) ==
    IF /\ ih # insert_here
       /\ ih <= Len(lst)
       /\ (Len(lst[ih].devnm) # ep \/ ~strncmp0(lst[ih].devnm, tok, ep))
    THEN WalkInsertHere(lst, ih + 1, insert_here, tok, ep)
    ELSE ih

\* Mutant: the token is copied from its first character, the [ included
PatternOf_keepBracket(tok) ==
    IF CharAt(tok, Len(tok) - 1) = "]" THEN SubSeq(tok, 1, Len(tok) - 1) ELSE tok

\* Lines 291-293: the pattern taken from a token [U... or [_...
PatternOf(tok) ==
    LET p == StrFrom(tok, 1)
    IN  IF CharAt(p, Len(tok) - 2) = "]" THEN SubSeq(p, 1, Len(tok) - 2) ELSE p

\* Mutant: the test for the (read-only) marker is inverted
IsLevelToken_inverted(e, tok) ==
    e.active > 0 /\ e.level = NULL /\ CharAt(tok, 0) = "("

\* Lines 255-257: is the token taken as the level?
IsLevelToken(e, tok) ==
    e.active > 0 /\ e.level = NULL /\ CharAt(tok, 0) # "("

\* Mutant: the branch does not test that percent is still RESYNC_NONE
IsProgressToken_unguarded(e, tok) ==
    /\ strncmp0(tok, S_re, 2)
    /\ CharAt(tok, Len(tok) - 1) = "%"
    /\ strchr(tok, "=") # -1

\* Lines 294-297: the guard of the "re...=N%" branch
IsProgressToken(e, tok) ==
    /\ e.percent = RESYNC_NONE
    /\ strncmp0(tok, S_re, 2)
    /\ CharAt(tok, Len(tok) - 1) = "%"
    /\ strchr(tok, "=") # -1

\* Mutant: the test for the trailing % is missing
IsBarePercent_noSign(e, tok) ==
    e.percent = RESYNC_NONE /\ CharAt(tok, 0) \in Digits

\* Lines 322-325: the guard of the bare "N%" branch
IsBarePercent(e, tok) ==
    /\ e.percent = RESYNC_NONE
    /\ CharAt(tok, 0) \in Digits
    /\ CharAt(tok, Len(tok) - 1) = "%"

\* Lines 299-304: ent->resync of a "re...=N%" token
ProgressResync(tok) ==
    IF strncmp0(tok, S_resync, 6) THEN 1
    ELSE IF strncmp0(tok, S_reshape, 7) THEN 2
    ELSE 0

\* Lines 307-314: ent->resync after a token that starts with r or c
WordResync(old, tok) ==
    LET r1 == IF strncmp0(tok, S_resync, 6) THEN 1 ELSE old
        r2 == IF strncmp0(tok, S_reshape, 7) THEN 2 ELSE r1
        r3 == IF strncmp0(tok, S_recovery, 8) THEN 0 ELSE r2
    IN  IF strncmp0(tok, S_check, 5) THEN 3 ELSE r3

\* Lines 316-321: ent->percent after a token that starts with r or c
WordPercent(old, tok) ==
    LET l  == Len(tok)
        p1 == IF l > 8 /\ EndsWith(tok, S_DELAYED) THEN RESYNC_DELAYED ELSE old
        p2 == IF l > 8 /\ EndsWith(tok, S_PENDING) THEN RESYNC_PENDING ELSE p1
    IN  IF l > 7 /\ EndsWith(tok, S_REMOTE) THEN RESYNC_REMOTE ELSE p2

\* The kind the data model reads off ent->resync once a token set it
KindName(r) ==
    CASE r = 1 -> "resync" [] r = 2 -> "reshape" [] r = 3 -> "check"
      [] OTHER -> "recovery"

\* Does a token that starts with r or c name one of the four kinds?
IsKindWord(tok) ==
    \/ strncmp0(tok, S_resync, 6)
    \/ strncmp0(tok, S_reshape, 7)
    \/ strncmp0(tok, S_recovery, 8)
    \/ strncmp0(tok, S_check, 5)

----------------------------------------------------------------------------
(* The body of the token loop, lines 241-328.  st is the parser's state:   *)
(* the record, in_devs, insert_here, whether the loop hit the break of     *)
(* line 254 (stop), whether the branch of line 282 consumed the following  *)
(* token (skip), and two history values: the kind classified so far and    *)
(* the token ent->percent was taken from.  tok is the token, more tells    *)
(* whether dl_next(w) != line, nxt is that next token, lst the list built  *)
(* so far.                                                                 *)

StartState(devnm) ==
    [ent |-> NewEnt(devnm), in_devs |-> 0, insert_here |-> 0,
     stop |-> FALSE, skip |-> FALSE, kind |-> "none", pctTok |-> NULL]

\* Lines 262-281: a token read while in_devs is set
MemberToken(st, tok, lst) ==
    LET e  == st.ent
        ep == strchr(tok, "[")
        am == add_member_devname(e.members, tok)
        e2 == [e EXCEPT !.members = am.members, !.devcnt = e.devcnt + am.ret]
    IN  IF ep # -1 /\ strncmp0(tok, S_md, 2)
        THEN [st EXCEPT !.ent = e2,
                        !.insert_here =
                            WalkInsertHere(lst, 1, st.insert_here, tok, ep)]
        ELSE [st EXCEPT !.ent = e2]

\* Lines 294-327: the three progress branches
ProgressToken(st, tok) ==
    LET e == st.ent
    IN  IF IsProgressToken(e, tok)
        THEN [st EXCEPT !.ent = [e EXCEPT
                            !.percent = atoi(StrFrom(tok, strchr(tok, "=") + 1)),
                            !.resync = ProgressResync(tok)],
                        !.kind = KindName(ProgressResync(tok)),
                        !.pctTok = tok]
        ELSE IF e.percent = RESYNC_NONE /\ CharAt(tok, 0) \in {"r", "c"}
        THEN [st EXCEPT !.ent = [e EXCEPT
                            !.resync = WordResync(e.resync, tok),
                            !.percent = WordPercent(e.percent, tok)],
                        !.kind = IF IsKindWord(tok)
                                 THEN KindName(WordResync(e.resync, tok))
                                 ELSE st.kind,
                        !.pctTok = IF WordPercent(e.percent, tok) # e.percent
                                   THEN tok ELSE st.pctTok]
        ELSE IF IsBarePercent(e, tok)
        THEN [st EXCEPT !.ent = [e EXCEPT !.percent = atoi(tok)],
                        !.pctTok = tok]
        ELSE st

ClassifyToken(st0, tok, more, nxt, lst) ==
    LET st == [st0 EXCEPT !.skip = FALSE]
        e  == st.ent
    IN  IF strcmp0(tok, T_active)
        THEN [st EXCEPT !.ent = [e EXCEPT !.active = 1]]
        ELSE IF strcmp0(tok, T_inactive)
        THEN [st EXCEPT !.ent = [e EXCEPT !.active = 0], !.in_devs = 1]
        ELSE IF strcmp0(tok, T_bitmap)
        THEN [st EXCEPT !.stop = TRUE]
        ELSE IF IsLevelToken(e, tok)
        THEN [st EXCEPT !.ent = [e EXCEPT !.level = tok], !.in_devs = 1]
        ELSE IF st.in_devs # 0 /\ strcmp0(tok, T_blocks)
        THEN [st EXCEPT !.in_devs = 0]
        ELSE IF st.in_devs # 0
        THEN MemberToken(st, tok, lst)
        ELSE IF strcmp0(tok, T_super) /\ more
        THEN [st EXCEPT !.ent = [e EXCEPT !.metadata_version = nxt],
                        !.skip = TRUE]
        ELSE IF CharAt(tok, 0) = "[" /\ isdigit(CharAt(tok, 1))
        THEN [st EXCEPT !.ent = [e EXCEPT !.raid_disks = atoi(StrFrom(tok, 1))]]
        ELSE IF e.pattern = NULL /\ CharAt(tok, 0) = "["
                /\ CharAt(tok, 1) \in {"U", "_"}
        THEN [st EXCEPT !.ent = [e EXCEPT !.pattern = PatternOf(tok)]]
        ELSE ProgressToken(st, tok)

\* Mutant: the loop goes on after the bitmap: token
RECURSIVE ParseTokens_nobreak(_, _, _, _)
ParseTokens_nobreak(st, toks, i, lst) ==
    IF i > Len(toks)
    THEN st
    ELSE LET more == i < Len(toks)
             s2   == ClassifyToken(st, toks[i], more,
                                   IF more THEN toks[i + 1] ELSE NULL, lst)
         IN  ParseTokens_nobreak(s2, toks, IF s2.skip THEN i + 2 ELSE i + 1, lst)

\* The for loop of line 241 over the tokens toks[i..] of one line
RECURSIVE ParseTokens(_, _, _, _)
ParseTokens(st, toks, i, lst) ==
    IF i > Len(toks) \/ st.stop
    THEN st
    ELSE LET more == i < Len(toks)
             s2   == ClassifyToken(st, toks[i], more,
                                   IF more THEN toks[i + 1] ELSE NULL, lst)
         IN  ParseTokens(s2, toks, IF s2.skip THEN i + 2 ELSE i + 1, lst)

\* Lines 226-328 for one accepted line: line[1] is the device name
ParseLine(line, lst) == ParseTokens(StartState(line[1]), line, 2, lst)

\* Mutant: the record is always appended at *end
InsertEnt_append(lst, e, insert_here) == Append(lst, e)

\* Lines 329-335: splice before *insert_here, or append at *end
InsertEnt(lst, e, insert_here) ==
    IF insert_here # 0 /\ insert_here <= Len(lst)
    THEN SubSeq(lst, 1, insert_here - 1) \o <<e>>
         \o SubSeq(lst, insert_here, Len(lst))
    ELSE Append(lst, e)

\* The loop of lines 209-336 over the logical lines from position i
RECURSIVE BuildList(_, _, _)
BuildList(lines, i, lst) ==
    IF i > Len(lines) THEN lst
    ELSE IF ~AcceptedLine(lines[i][1]) THEN BuildList(lines, i + 1, lst)
    ELSE LET st == ParseLine(lines[i], lst)
         IN  BuildList(lines, i + 1, InsertEnt(lst, st.ent, st.insert_here))

\* Mutant: the loop links each record behind rv instead of before it
RECURSIVE ReverseOnto_behind(_, _)
ReverseOnto_behind(lst, acc) ==
    IF lst = <<>> THEN acc ELSE ReverseOnto_behind(Tail(lst), acc \o <<Head(lst)>>)

\* Lines 349-358: the reversal loop, moving the head of all to the head of rv
RECURSIVE ReverseOnto(_, _)
ReverseOnto(lst, acc) ==
    IF lst = <<>> THEN acc ELSE ReverseOnto(Tail(lst), <<Head(lst)>> \o acc)

StartOrder(lst, start) == IF start THEN ReverseOnto(lst, <<>>) ELSE lst

----------------------------------------------------------------------------
(* Record predicates and the metadata-version predicates they call.        *)

is_mdstat_ent_external(e) ==
    IF e.metadata_version = NULL THEN FALSE
    ELSE strncmp0(e.metadata_version, S_external, 9)

\* is_subarray(): the text after "external:" starts with / or -
is_subarray(tail) == CharAt(tail, 0) \in {"/", "-"}

is_mdstat_ent_subarray(e) ==
    is_mdstat_ent_external(e) /\ is_subarray(StrFrom(e.metadata_version, 9))

\* The inner loop of lines 460-462 over the member list
HasMember(e, member_devnm) ==
    \E k \in 1..Len(e.members) : strcmp0(e.members[k], member_devnm)

\* Mutant: the loop keeps going after a match, so the last match is returned
RECURSIVE FindByMemberFrom_last(_, _, _)
FindByMemberFrom_last(lst, i, member_devnm) ==
    IF i > Len(lst) THEN 0
    ELSE LET later == FindByMemberFrom_last(lst, i + 1, member_devnm)
         IN  IF later # 0 THEN later
             ELSE IF is_mdstat_ent_subarray(lst[i]) THEN 0
             ELSE IF HasMember(lst[i], member_devnm) THEN i
             ELSE 0

\* mdstat_find_by_member_name from position i of the list: the position of
\* the record returned, 0 for NULL
RECURSIVE FindByMemberFrom(_, _, _)
FindByMemberFrom(lst, i, member_devnm) ==
    IF i > Len(lst) THEN 0
    ELSE IF is_mdstat_ent_subarray(lst[i])
    THEN FindByMemberFrom(lst, i + 1, member_devnm)
    ELSE IF HasMember(lst[i], member_devnm) THEN i
    ELSE FindByMemberFrom(lst, i + 1, member_devnm)

\* Mutant: the loop does not skip external subarrays
mdstat_find_by_member_name_noskip(lst, member_devnm) ==
    IF \E i \in 1..Len(lst) : HasMember(lst[i], member_devnm)
    THEN CHOOSE i \in 1..Len(lst) :
            /\ HasMember(lst[i], member_devnm)
            /\ \A j \in 1..(i - 1) : ~HasMember(lst[j], member_devnm)
    ELSE 0

mdstat_find_by_member_name(lst, member_devnm) ==
    FindByMemberFrom(lst, 1, member_devnm)

\* Mutant: line 125 clears the predecessor's link instead of setting it to
\* el->next
mdstat_ent_list_detach_element_cut(lst, el) ==
    IF lst # <<>> /\ el = 1
    THEN [list |-> Tail(lst), ok |-> TRUE]
    ELSE IF \E i \in 1..Len(lst) : i + 1 = el /\ el <= Len(lst)
    THEN [list |-> SubSeq(lst, 1, el - 1), ok |-> TRUE]
    ELSE [list |-> lst, ok |-> FALSE]

\* mdstat_ent_list_detach_element: el is the position in the list of the
\* element to detach, 0 for an element that is not in the list.  ok is the
\* outcome of assert(ent).
mdstat_ent_list_detach_element(lst, el) ==
    IF lst # <<>> /\ el = 1
    THEN [list |-> Tail(lst), ok |-> TRUE]
    ELSE IF \E i \in 1..Len(lst) : i + 1 = el /\ el <= Len(lst)
    THEN [list |-> SubSeq(lst, 1, el - 1) \o SubSeq(lst, el + 1, Len(lst)),
          ok |-> TRUE]
    ELSE [list |-> lst, ok |-> FALSE]

\* metadata_container_matches(): the text after "external:" is /<container>/...
\* or -<container>/...
metadata_container_matches(metadata, container) ==
    /\ CharAt(metadata, 0) \in {"/", "-"}
    /\ strncmp0(StrFrom(metadata, 1), container, Len(container))
    /\ CharAt(metadata, Len(container) + 1) = "/"

\* metadata_subdev_matches(): the text after the second / is the subdev
metadata_subdev_matches(metadata, subdev) ==
    /\ CharAt(metadata, 0) \in {"/", "-"}
    /\ strchr(StrFrom(metadata, 1), "/") # -1
    /\ strcmp0(StrFrom(metadata, strchr(StrFrom(metadata, 1), "/") + 2), subdev)

\* The loop of lines 487-502 from position i: position of the record found
RECURSIVE FindBySubdevFrom(_, _, _, _)
FindBySubdevFrom(lst, i, subdev, container) ==
    IF i > Len(lst) THEN 0
    ELSE IF /\ is_mdstat_ent_external(lst[i])
            /\ metadata_container_matches(StrFrom(lst[i].metadata_version, 9),
                                          container)
            /\ metadata_subdev_matches(StrFrom(lst[i].metadata_version, 9),
                                       subdev)
    THEN i
    ELSE FindBySubdevFrom(lst, i + 1, subdev, container)

\* Mutant: only the record at position i is compared
FindByDevnmFrom_head(lst, i, devnm) ==
    IF i > Len(lst) THEN 0
    ELSE IF strcmp0(lst[i].devnm, devnm) THEN i
    ELSE 0

\* The loop of lines 436-438: position of the record named devnm, 0 if none
RECURSIVE FindByDevnmFrom(_, _, _)
FindByDevnmFrom(lst, i, devnm) ==
    IF i > Len(lst) THEN 0
    ELSE IF strcmp0(lst[i].devnm, devnm) THEN i
    ELSE FindByDevnmFrom(lst, i + 1, devnm)

----------------------------------------------------------------------------
(* The inputs.                                                             *)

\* Injective sequences of length n over S
InjSeqs(S, n) ==
    {f \in [1..n -> S] : \A i, j \in 1..n : i # j => f[i] # f[j]}

UpTo(S, n) == UNION {InjSeqs(S, k) : k \in 0..n}

\* Lines of /proc/mdstat for the API: a native array, a container and a
\* subarray of the container; the file holds any of them in any order.
A_native == <<N_md0, T_active, T_raid1, T_sda, T_sdb, T_blocks, T_slots, T_pattern>>
A_container == <<N_md1, T_inactive, T_sda, T_blocks, T_super, T_extcont>>
A_subarray == <<N_md2, T_active, T_raid1, T_sda, T_blocks, T_super, T_extsub>>

ApiLines == {A_native, A_container, A_subarray}

ApiFiles == UpTo(ApiLines, Cardinality(ApiLines))

QueryNames == {N_sda, N_sdb}

\* Files for the ordering rule: every array on a line of its own, each with
\* up to MaxMembers member arrays, no array a member of itself through any
\* chain of members.
Devs == {N_md0, N_md1, N_md2}

MemberTok(d) == d \o <<"[", "0", "]">>

\* The member tokens a line of d may carry (d is not a member of itself)
MemberSeqs(d) == UpTo({MemberTok(m) : m \in Devs \ {d}}, MaxMembers)

OrderLine(d, ms) == <<d, T_active, T_raid1>> \o ms

\* d names m as a member on its line in f
Names(f, d, m) ==
    \E i \in 1..Len(f) :
        f[i][1] = d /\ \E k \in 4..Len(f[i]) : f[i][k] = MemberTok(m)

RECURSIVE Reaches(_, _, _, _)
Reaches(f, d, m, n) ==
    \/ Names(f, d, m)
    \/ n > 0 /\ \E x \in Devs : Names(f, d, x) /\ Reaches(f, x, m, n - 1)

Acyclic(f) == \A d \in Devs : ~Reaches(f, d, d, Len(f))

\* The files with one line for each array of ds, in that order
RECURSIVE FilesOver(_)
FilesOver(ds) ==
    IF ds = <<>>
    THEN {<<>>}
    ELSE {<<OrderLine(Head(ds), ms)>> \o r :
              ms \in MemberSeqs(Head(ds)), r \in FilesOver(Tail(ds))}

OrderFiles ==
    {f \in UNION {FilesOver(ds) : ds \in UpTo(Devs, MaxLines)} : Acyclic(f)}

\* Line parser inputs: first tokens of a line, and the tokens that follow
FirstTokens == {N_md0, N_md_d1, N_mdx, N_sda, S_Personalities, S_read_ahead, S_unused}

LineTokens ==
    {T_active, T_inactive, T_bitmap, T_readonly, T_raid1, T_blocks, T_sda,
     T_md0m, T_super, T_v12, T_slots, T_pattern, T_patopen, T_patodd,
     T_resyncpct, T_reshapeneg, T_recovdelayed, T_resync, T_pct}

\* The list the loop of lines 209-336 builds from the lines of the file;
\* the lists of the API's files are tabulated
ApiSnapshots == {<<f, BuildList(f, 1, <<>>)>> : f \in ApiFiles}

Snapshot(f) ==
    LET hit == {p \in ApiSnapshots : p[1] = f}
    IN  IF hit = {} THEN BuildList(f, 1, <<>>) ELSE (CHOOSE p \in hit : TRUE)[2]

----------------------------------------------------------------------------
(* Descriptors.  open() and dup() return the lowest free descriptor.       *)

LowestFree(used) ==
    CHOOSE f \in (0..MaxFd) \ used : \A g \in (0..MaxFd) \ used : f <= g

\* The outcomes a call of mdstat_read can have: "ok", or the operation that
\* fails.  lseek, dup and fdopen are those of lines 188-194, fopen that of
\* line 198, cloexec the fcntl of line 202, dup_cache and cloexec_cache the
\* dup and fcntl of lines 338-339.
ReadOutcomes(hold) ==
    IF hold /\ mdstat_fd # -1
    THEN {"ok", "lseek", "dup", "fdopen", "cloexec"}
    ELSE IF hold
    THEN {"ok", "fopen", "cloexec", "dup_cache", "cloexec_cache"}
    ELSE {"ok", "fopen", "cloexec"}

\* The descriptors a call with outcome io takes while it runs
FdsNeeded(hold, io) ==
    IF io \in {"lseek", "dup", "fopen"} THEN 0
    ELSE IF hold /\ mdstat_fd = -1 /\ io \in {"ok", "cloexec_cache"} THEN 2
    ELSE 1

\* Lines 337-343 on the failure of dup or fcntl: the list built is neither
\* freed nor returned
CacheFailure(built) == [rv |-> <<>>, lost |-> built]

\* Mutant: line 337 tests hold alone, so every hold-mode read that gets to
\* it duplicates the descriptor into the slot again
ReadResult_recache(built, hold, start, io) ==
    LET absent == [rv |-> <<>>, all |-> <<>>, lost |-> <<>>,
                   mdstat_fd |-> mdstat_fd, fds |-> fds]
        fd     == LowestFree(fds)
        cached == LowestFree(fds \cup {fd})
    IN  IF hold /\ mdstat_fd # -1 /\ io \in {"lseek", "dup"}
        THEN absent
        ELSE IF hold /\ mdstat_fd # -1 /\ io = "fdopen"
        THEN [absent EXCEPT !.fds = fds \cup {fd}]
        ELSE IF ~(hold /\ mdstat_fd # -1) /\ io = "fopen"
        THEN absent
        ELSE IF io = "cloexec"
        THEN absent
        ELSE IF hold /\ io = "dup_cache"
        THEN [absent EXCEPT !.all = built, !.lost = built, !.mdstat_fd = -1]
        ELSE IF hold /\ io = "cloexec_cache"
        THEN [absent EXCEPT !.all = built, !.lost = built,
                            !.mdstat_fd = cached, !.fds = fds \cup {cached}]
        ELSE IF hold
        THEN [rv |-> StartOrder(built, start), all |-> built, lost |-> <<>>,
              mdstat_fd |-> cached, fds |-> fds \cup {cached}]
        ELSE [rv |-> StartOrder(built, start), all |-> built, lost |-> <<>>,
              mdstat_fd |-> mdstat_fd, fds |-> fds]

\* mdstat_read(hold, start) with outcome io: what it returns (rv), the list
\* it built (all), the records it leaves allocated without returning them
\* (lost), and mdstat_fd and the module's open descriptors afterwards.
ReadResult(built, hold, start, io) ==
    LET absent == [rv |-> <<>>, all |-> <<>>, lost |-> <<>>,
                   mdstat_fd |-> mdstat_fd, fds |-> fds]
        fd     == LowestFree(fds)
        cached == LowestFree(fds \cup {fd})
    IN  IF hold /\ mdstat_fd # -1 /\ io \in {"lseek", "dup"}
        THEN absent
        ELSE IF hold /\ mdstat_fd # -1 /\ io = "fdopen"
        THEN [absent EXCEPT !.fds = fds \cup {fd}]
        ELSE IF ~(hold /\ mdstat_fd # -1) /\ io = "fopen"
        THEN absent
        ELSE IF io = "cloexec"
        THEN absent
        ELSE IF hold /\ mdstat_fd = -1 /\ io = "dup_cache"
        THEN [absent EXCEPT !.all = built,
                            !.rv = CacheFailure(built).rv,
                            !.lost = CacheFailure(built).lost,
                            !.mdstat_fd = -1]
        ELSE IF hold /\ mdstat_fd = -1 /\ io = "cloexec_cache"
        THEN [absent EXCEPT !.all = built,
                            !.rv = CacheFailure(built).rv,
                            !.lost = CacheFailure(built).lost,
                            !.mdstat_fd = cached,
                            !.fds = fds \cup {cached}]
        ELSE IF hold /\ mdstat_fd = -1
        THEN [rv |-> StartOrder(built, start), all |-> built, lost |-> <<>>,
              mdstat_fd |-> cached, fds |-> fds \cup {cached}]
        ELSE [rv |-> StartOrder(built, start), all |-> built, lost |-> <<>>,
              mdstat_fd |-> mdstat_fd, fds |-> fds]

mdstat_read(hold, start, io) == ReadResult(Snapshot(file), hold, start, io)

----------------------------------------------------------------------------
(* The API as a state machine.                                             *)

NoCall == [op |-> "none", hold |-> FALSE, start |-> FALSE, io |-> "ok",
           name |-> NULL, fd |-> -1]

LineIdle ==
    /\ pc = "idle"
    /\ ps = StartState(NULL)
    /\ w = NULL
    /\ ntok = 0

ApiIdle ==
    /\ mdstat_fd = -1
    /\ fds = {}
    /\ call = NoCall
    /\ rv = <<>>
    /\ all = <<>>
    /\ heap = <<>>
    /\ res = 0
    /\ selected = {}

Init ==
    /\ file \in ApiFiles
    /\ ApiIdle
    /\ LineIdle

\* The state after a call that returns list ret, leaves the records lost
\* allocated and delivers the integer n
Returns(c, ret, built, lost, n) ==
    /\ call' = c
    /\ rv' = ret
    /\ all' = built
    /\ heap' = ret \o lost
    /\ res' = n
    /\ selected' = {}
    /\ UNCHANGED file
    /\ UNCHANGED lineVars

ReadReturns(c, r) ==
    /\ Returns(c, r.rv, r.all, r.lost, 0)
    /\ mdstat_fd' = r.mdstat_fd
    /\ fds' = r.fds

\* struct mdstat_ent *mdstat_read(int hold, int start)
MdstatRead(hold, start, io) ==
    /\ io \in ReadOutcomes(hold)
    /\ Cardinality((0..MaxFd) \ fds) >= FdsNeeded(hold, io)
    /\ ReadReturns([NoCall EXCEPT !.op = "read", !.hold = hold,
                                  !.start = start, !.io = io],
                   mdstat_read(hold, start, io))

\* void mdstat_close(void)
MdstatClose ==
    /\ fds' = IF mdstat_fd >= 0 THEN fds \ {mdstat_fd} ELSE fds
    /\ mdstat_fd' = -1
    /\ call' = [NoCall EXCEPT !.op = "close"]
    /\ rv' = <<>>
    /\ all' = <<>>
    /\ heap' = <<>>
    /\ res' = 0
    /\ selected' = {}
    /\ UNCHANGED file
    /\ UNCHANGED lineVars

\* Mutant: mdstat_wait selects without looking at mdstat_fd
mdstat_wait_unguarded(sel) == [res |-> sel, selected |-> {mdstat_fd}]

\* The result of mdstat_wait and the descriptors it selects on, when
\* select() itself returns sel
mdstat_wait(sel) ==
    IF mdstat_fd >= 0
    THEN [res |-> sel, selected |-> {mdstat_fd}]
    ELSE [res |-> -1, selected |-> {}]

\* int mdstat_wait(int seconds)
MdstatWait(sel) ==
    /\ res' = mdstat_wait(sel).res
    /\ selected' = mdstat_wait(sel).selected
    /\ call' = [NoCall EXCEPT !.op = "wait"]
    /\ rv' = <<>>
    /\ all' = <<>>
    /\ heap' = <<>>
    /\ UNCHANGED <<file, mdstat_fd, fds>>
    /\ UNCHANGED lineVars

\* void mdstat_wait_fd(int fd, const sigset_t *sigmask); stat is the outcome
\* of fstat(fd): "fail", "reg" for a regular file, "other"
MdstatWaitFd(fd, stat) ==
    /\ selected' = IF fd >= 0 /\ stat = "fail" THEN {}
                   ELSE (IF mdstat_fd >= 0 THEN {mdstat_fd} ELSE {})
                        \cup (IF fd >= 0 THEN {fd} ELSE {})
    /\ call' = [NoCall EXCEPT !.op = "wait_fd", !.fd = fd, !.io = stat]
    /\ rv' = <<>>
    /\ all' = <<>>
    /\ heap' = <<>>
    /\ res' = 0
    /\ UNCHANGED <<file, mdstat_fd, fds>>
    /\ UNCHANGED lineVars

\* Lines 436-440 of mddev_busy on the list mdstat
BusyReturns(c, mdstat, devnm) ==
    /\ Returns(c, <<>>, mdstat, <<>>,
               IF FindByDevnmFrom(mdstat, 1, devnm) # 0 THEN 1 ELSE 0)
    /\ UNCHANGED <<mdstat_fd, fds>>

\* int mddev_busy(char *devnm)
MddevBusy(devnm, io) ==
    /\ io \in ReadOutcomes(FALSE)
    /\ Cardinality((0..MaxFd) \ fds) >= FdsNeeded(FALSE, io)
    /\ BusyReturns([NoCall EXCEPT !.op = "busy", !.name = devnm, !.io = io],
                   mdstat_read(FALSE, FALSE, io).rv, devnm)

\* The records of lst that free_mdstat(freed) does not reach
NotFreed(lst, freed) ==
    SelectSeq(lst, LAMBDA r : \A i \in 1..Len(freed) : freed[i] # r)

\* The state after the detach, the free_mdstat and the return of lines
\* 474-479 and 504-508; d is what the detach did, when it was called.  res
\* is -1 when assert(ent) failed.
Detached(c, mdstat, e, d) ==
    /\ call' = c
    /\ rv' = IF e # 0 /\ d.ok THEN <<mdstat[e]>> ELSE <<>>
    /\ all' = mdstat
    /\ heap' = NotFreed(mdstat, d.list)
    /\ res' = IF d.ok THEN 0 ELSE -1
    /\ selected' = {}
    /\ UNCHANGED <<file, mdstat_fd, fds>>
    /\ UNCHANGED lineVars

\* Mutant: the detach is called without the test of ent
DetachReturns_unguarded(c, mdstat, e) ==
    Detached(c, mdstat, e, mdstat_ent_list_detach_element(mdstat, e))

\* Lines 474-479 and 504-508: the record at position e of the list mdstat
\* is detached and returned, the rest of the list freed; e = 0 is NULL, for
\* which the detach is not called
DetachReturns(c, mdstat, e) ==
    Detached(c, mdstat, e,
             IF e # 0 THEN mdstat_ent_list_detach_element(mdstat, e)
             ELSE [list |-> mdstat, ok |-> TRUE])

ByComponentReturns(c, mdstat, name) ==
    DetachReturns(c, mdstat, mdstat_find_by_member_name(mdstat, name))

\* struct mdstat_ent *mdstat_by_component(char *name)
MdstatByComponent(name, io) ==
    /\ io \in ReadOutcomes(FALSE)
    /\ Cardinality((0..MaxFd) \ fds) >= FdsNeeded(FALSE, io)
    /\ ByComponentReturns([NoCall EXCEPT !.op = "by_component",
                                         !.name = name, !.io = io],
                          mdstat_read(FALSE, FALSE, io).rv, name)

BySubdevReturns(c, mdstat, subdev, container) ==
    DetachReturns(c, mdstat, FindBySubdevFrom(mdstat, 1, subdev, container))

\* struct mdstat_ent *mdstat_by_subdev(char *subdev, char *container)
MdstatBySubdev(subdev, container, io) ==
    /\ io \in ReadOutcomes(FALSE)
    /\ Cardinality((0..MaxFd) \ fds) >= FdsNeeded(FALSE, io)
    /\ BySubdevReturns([NoCall EXCEPT !.op = "by_subdev",
                                      !.name = subdev \o <<"@">> \o container,
                                      !.io = io],
                       mdstat_read(FALSE, FALSE, io).rv, subdev, container)

AllOutcomes ==
    {"ok", "lseek", "dup", "fdopen", "fopen", "cloexec", "dup_cache",
     "cloexec_cache"}

Next ==
    \/ \E hold \in BOOLEAN, start \in BOOLEAN, io \in AllOutcomes :
            MdstatRead(hold, start, io)
    \/ MdstatClose
    \/ \E sel \in {-1, 0, 1} : MdstatWait(sel)
    \/ \E fd \in {-1, MaxFd + 1}, stat \in {"fail", "reg", "other"} :
            MdstatWaitFd(fd, stat)
    \/ \E devnm \in {N_md0, N_md2}, io \in AllOutcomes : MddevBusy(devnm, io)
    \/ \E name \in QueryNames, io \in AllOutcomes : MdstatByComponent(name, io)
    \/ \E subdev \in {<<"0">>, <<"1">>}, container \in {N_md1},
          io \in AllOutcomes : MdstatBySubdev(subdev, container, io)

Spec == Init /\ [][Next]_vars

----------------------------------------------------------------------------
(* The ordering rule: mdstat_read on files of arrays made of arrays.       *)

InitOrder ==
    /\ file \in OrderFiles
    /\ ApiIdle
    /\ LineIdle

NextOrder == \E start \in BOOLEAN : MdstatRead(FALSE, start, "ok")

SpecOrder == InitOrder /\ [][NextOrder]_vars

----------------------------------------------------------------------------
(* The line parser, token by token: mdstat_read(0, 0) on a file with one   *)
(* md line, which conf_line() may yield after lines that are skipped.      *)

InitLine ==
    /\ file = <<>>
    /\ ApiIdle
    /\ pc = "conf_line"
    /\ ps = StartState(NULL)
    /\ w = NULL
    /\ ntok = 0

\* Lines 209-239: the next logical line, whose first token is first
ConfLine(first) ==
    /\ pc = "conf_line"
    /\ IF AcceptedLine(first)
       THEN /\ pc' = "tokens"
            /\ ps' = StartState(first)
            /\ w' = first
       ELSE UNCHANGED <<pc, ps, w>>
    /\ UNCHANGED ntok
    /\ UNCHANGED apiVars

\* Lines 241-328: one turn of the token loop on token tok; nxt is the token
\* after it, NULL when tok is the last of the line
NextToken(tok, nxt) ==
    /\ pc = "tokens"
    /\ ntok + (IF nxt = NULL THEN 1 ELSE 2) <= MaxTokens
    /\ LET s2 == ClassifyToken(ps, tok, nxt # NULL, nxt, all)
       IN  /\ ps' = s2
           /\ w' = IF s2.skip THEN nxt ELSE tok
           /\ ntok' = ntok + (IF s2.skip THEN 2 ELSE 1)
           /\ pc' = IF s2.stop \/ (tok = T_super /\ nxt = NULL)
                    THEN "insert" ELSE "tokens"
    /\ UNCHANGED apiVars

\* Line 241: w is back at the head of the line
EndOfLine ==
    /\ pc = "tokens"
    /\ pc' = "insert"
    /\ UNCHANGED <<ps, w, ntok>>
    /\ UNCHANGED apiVars

\* Lines 329-360: the record joins the list, the file ends, the list is
\* returned
InsertAndReturn ==
    /\ pc = "insert"
    /\ pc' = "done"
    /\ all' = InsertEnt(all, ps.ent, ps.insert_here)
    /\ rv' = InsertEnt(all, ps.ent, ps.insert_here)
    /\ heap' = InsertEnt(all, ps.ent, ps.insert_here)
    /\ call' = [NoCall EXCEPT !.op = "read"]
    /\ UNCHANGED <<ps, w, ntok>>
    /\ UNCHANGED <<file, mdstat_fd, fds, res, selected>>

NextLine ==
    \/ \E first \in FirstTokens : ConfLine(first)
    \/ \E tok \in LineTokens :
          \E nxt \in (IF tok = T_super THEN LineTokens \cup {NULL} ELSE {NULL}) :
            NextToken(tok, nxt)
    \/ EndOfLine
    \/ InsertAndReturn

SpecLine == InitLine /\ [][NextLine]_vars

----------------------------------------------------------------------------
(* Properties.                                                             *)

\* Position in lst of the record named d (the names of a file are distinct)
PosOf(lst, d) == CHOOSE i \in 1..Len(lst) : lst[i].devnm = d

\* The k-th line of the file names the array of the i-th line as a member
LineNames(k, i) ==
    HasMember(all[PosOf(all, file[k][1])], file[i][1])

\* lst with its order reversed
Reversed(lst) == [i \in 1..Len(lst) |-> lst[Len(lst) + 1 - i]]

ReadReturned == call.op = "read" /\ call.io = "ok"

\* C1 as stated: in the list built before the reversal every record comes
\* after the records of the arrays it is composed of.
C1_ComponentsPrecedeComposites ==
    ReadReturned =>
        \A i, j \in 1..Len(all) :
            (i # j /\ HasMember(all[i], all[j].devnm)) => j < i

\* C1 amended: in the list built before the reversal every record comes
\* before the records of those of its member arrays whose lines were read
\* before its own line (a composite precedes the components listed earlier).
C1_CompositePrecedesEarlierComponents ==
    ReadReturned =>
        \A i, k \in 1..Len(file) :
            (i < k /\ LineNames(k, i)) =>
                PosOf(all, file[k][1]) < PosOf(all, file[i][1])

\* C1 witness: a read of a file where two component lines precede the line
\* of the array made of them, so the record was spliced in before them.
C1_Witness ==
    /\ ReadReturned
    /\ Len(file) = 3
    /\ LineNames(3, 1)
    /\ LineNames(3, 2)
    /\ all[1].devnm = file[3][1]

\* C2: in a list returned with start set, every member array present in the
\* list comes before the record that names it.
C2_StartListComponentsFirst ==
    (ReadReturned /\ call.start) =>
        \A i, j \in 1..Len(rv) :
            (i # j /\ HasMember(rv[i], rv[j].devnm)) => j < i

\* C3: a read with start set returns the reverse of what a read without
\* start, made just before on the same file, returned.
C3_StartReturnsReverse ==
    [][(/\ ReadReturned /\ ~call.start
        /\ call'.op = "read" /\ call'.io = "ok" /\ call'.start
        /\ file' = file)
       => rv' = Reversed(rv)]_vars

\* C3 witness: a read with start set has returned three records in an order
\* other than the one the list was built in.
C3_Witness ==
    /\ ReadReturned
    /\ call.start
    /\ Len(rv) = 3
    /\ rv # all

\* C4: a read in which an open, rewind, dup or close-on-exec operation fails
\* returns the absent snapshot and leaves no record it built allocated.
C4_FailedReadLeavesNothing ==
    (call.op = "read" /\ call.io # "ok") => (rv = <<>> /\ heap = <<>>)

\* C5: mdstat_wait called while the cached descriptor is absent returns a
\* negative result and selects on no descriptor.
C5_WaitWithoutDescriptorFails ==
    (call.op = "wait" /\ mdstat_fd = -1) => (res < 0 /\ selected = {})

\* C5 witness: a wait has failed with the cached descriptor absent after a
\* hold-mode read had set it and close cleared it (the descriptor that a
\* failed fdopen of a later hold-mode read left behind is still open).
C5_Witness ==
    /\ call.op = "wait"
    /\ mdstat_fd = -1
    /\ res < 0
    /\ fds # {}

\* An external subarray: metadata_version is "external:" followed by / or -
ExternalSubarray(e) ==
    /\ Len(e.metadata_version) >= 10
    /\ SubSeq(e.metadata_version, 1, 9) = S_external
    /\ e.metadata_version[10] \in {"/", "-"}

\* The record of the snapshot lists name as a member and is no subarray
HoldsComponent(e, name) ==
    /\ \E k \in 1..Len(e.members) : e.members[k] = name
    /\ ~ExternalSubarray(e)

\* C6: mdstat_by_component returns a record iff the snapshot it read holds a
\* record that lists the name as a member and is not an external subarray,
\* and the record it returns is such a record of that snapshot.
C6_ByComponentReturnsHolder ==
    call.op = "by_component" =>
        /\ rv # <<>> <=> \E i \in 1..Len(all) : HoldsComponent(all[i], call.name)
        /\ rv # <<>> =>
            /\ HoldsComponent(rv[1], call.name)
            /\ \E i \in 1..Len(all) : all[i] = rv[1]

\* C6 witness: by_component returned a record although a subarray that
\* lists the same member comes before it in the snapshot.
C6_Witness ==
    /\ call.op = "by_component"
    /\ rv # <<>>
    /\ Len(all) >= 2
    /\ ExternalSubarray(all[1])
    /\ \E k \in 1..Len(all[1].members) : all[1].members[k] = call.name

\* The record the line parser is building, and the records of the list
LineRecords == {ps.ent} \cup {rv[i] : i \in 1..Len(rv)}

\* C7: devcnt is the number of entries of the member list.
C7_DevcntCountsMembers ==
    \A e \in LineRecords : e.devcnt = Len(e.members)

\* C7 witness: a returned record of an inactive array with the same member
\* named twice and, last in its device list, the token raid1, which has no [.
C7_Witness ==
    /\ pc = "done"
    /\ ntok = 4
    /\ rv[1].active = 0
    /\ rv[1].devcnt = 2
    /\ rv[1].members[1] = rv[1].members[2]
    /\ w = T_raid1

\* A bare percent token: it starts with a digit and ends with %
BarePercentToken(tok) ==
    tok # NULL /\ tok[1] \in Digits /\ tok[Len(tok)] = "%"

\* C8 as stated: a record with an integer percent has a kind.
C8_PercentImpliesKind ==
    pc = "done" => (rv[1].percent \in 0..100 => ps.kind # "none")

\* C8 amended: a record with an integer percent has a kind, unless the
\* percent was taken from a bare <digits>% token on a line on which no
\* kind token came before it.
C8_PercentImpliesKindOrBare ==
    \A e \in LineRecords :
        e.percent \in 0..100 => (ps.kind # "none" \/ BarePercentToken(ps.pctTok))

\* C8 witness: a returned record whose percent 37 was taken from the bare
\* token 37.4% after a resync token had classified the kind.
C8_Witness ==
    /\ pc = "done"
    /\ rv[1].percent = 37
    /\ ps.pctTok = T_pct
    /\ ps.kind = "resync"
    /\ rv[1].resync = 1

\* C9 as stated: an active record has a level unless the parse stopped at
\* a bitmap: token.
C9_ActiveHasLevel ==
    pc = "done" => (rv[1].active = 1 => (rv[1].level # NULL \/ ps.stop))

\* C9 amended: an active record has a level unless the parse ended before
\* a level token was seen: the last token parsed is active, a token that
\* begins with "(", or bitmap:.
C9_ActiveHasLevelUnlessCutShort ==
    \A e \in LineRecords :
        (e.active = 1 /\ e.level = NULL) =>
            (w \in {T_active, T_bitmap} \/ CharAt(w, 0) = "(")

\* C9 witness: a returned record that is active with a level, taken from
\* the token after a (read-only) marker.
C9_Witness ==
    /\ pc = "done"
    /\ ntok = 3
    /\ rv[1].active = 1
    /\ rv[1].level = T_raid1
    /\ w = T_raid1

\* C10 as stated: every character of a pattern is U or _.
C10_PatternChars ==
    \A e \in LineRecords :
        e.pattern # NULL =>
            \A k \in 1..Len(e.pattern) : e.pattern[k] \in {"U", "_"}

\* C10 amended: the first character of a pattern is U or _; the pattern is
\* the text of a token after its [, less one closing ] at its end.
C10_PatternFirstChar ==
    \A e \in LineRecords :
        e.pattern # NULL =>
            /\ e.pattern[1] \in {"U", "_"}
            /\ \E tok \in LineTokens :
                  \/ tok = <<"[">> \o e.pattern
                  \/ tok = <<"[">> \o e.pattern \o <<"]">>

\* C10 witness: a returned record whose pattern U_ came from the token [U_].
C10_Witness ==
    /\ pc = "done"
    /\ rv[1].pattern = <<"U", "_">>
    /\ rv[1].raid_disks = 2

----------------------------------------------------------------------------
(* The line filter: mdstat_read on files that mix md lines with lines the   *)
(* loop of lines 209-336 skips.                                             *)

\* Device names of 31 and of 32 characters
N_md31 == N_md0 \o [i \in 1..(DevnmSize - 1 - Len(N_md0)) |-> "0"]
N_md32 == N_md0 \o [i \in 1..(DevnmSize - Len(N_md0)) |-> "0"]

FilterLines ==
    {OrderLine(N_md0, <<>>), OrderLine(N_md1, <<MemberTok(N_md0)>>),
     <<N_md_d1, T_inactive, T_sda>>, <<N_md31, T_active, T_raid1>>,
     <<S_Personalities, T_raid1>>, <<N_mdx, T_active, T_raid1, T_sda>>,
     <<N_md32, T_active, T_raid1>>, <<S_md, T_active>>}

FilterFiles == UNION {[1..n -> FilterLines] : n \in 0..MaxLines}

InitFilter ==
    /\ file \in FilterFiles
    /\ ApiIdle
    /\ LineIdle

SpecFilter == InitFilter /\ [][NextOrder]_vars

\* The test the data model puts on the first token of a line
IsMdName(first) ==
    /\ Len(first) >= 3
    /\ first[1] = "m"
    /\ first[2] = "d"
    /\ Len(first) < 32
    /\ first[3] \in Digits \cup {"_"}

\* The lines of f whose first token passes the test, in their order
MdLines(f) == SelectSeq(f, LAMBDA line : IsMdName(line[1]))

\* C11: the list read holds one record for every line whose first token
\* begins with md, is shorter than 32 characters and has a digit or _ as its
\* third character, none for any other line, and it is the list the file
\* without the other lines gives.
C11_OneRecordPerMdLine ==
    ReadReturned =>
        /\ Len(all) = Len(MdLines(file))
        /\ \A d \in {file[k][1] : k \in 1..Len(file)} \cup
                    {all[i].devnm : i \in 1..Len(all)} :
              Cardinality({i \in 1..Len(all) : all[i].devnm = d}) =
              Cardinality({k \in 1..Len(MdLines(file)) : MdLines(file)[k][1] = d})
        /\ all = BuildList(MdLines(file), 1, <<>>)
        /\ rv = StartOrder(all, call.start)

\* C11 witness: a read of three lines, the first with a name of 32
\* characters, the second an md line with a name of 31, the third named mdx,
\* has returned one record.
C11_Witness ==
    /\ ReadReturned
    /\ Len(file) = 3
    /\ file[1][1] = N_md32
    /\ file[2][1] = N_md31
    /\ file[3][1] = N_mdx
    /\ Len(rv) = 1
    /\ rv[1].devnm = N_md31
    /\ rv[1].level = T_raid1

\* C12: mddev_busy returns 1 exactly when the snapshot its own non-hold read
\* built holds a record whose devnm is the name asked for, and 0 when that
\* read failed.
C12_BusyIffRecordNamed ==
    call.op = "busy" =>
        /\ res \in {0, 1}
        /\ call.io = "ok" => all = BuildList(file, 1, <<>>)
        /\ res = 1 <=> \E i \in 1..Len(all) : all[i].devnm = call.name
        /\ call.io # "ok" => res = 0

\* C12 witness: busy has returned 1 for the array of the last of three
\* records, and left nothing allocated.
C12_Witness ==
    /\ call.op = "busy"
    /\ res = 1
    /\ Len(all) = 3
    /\ all[3].devnm = call.name
    /\ heap = <<>>

\* The list after the first k lines of the file; that of the whole file is
\* the list the read built
ListAfter(k) ==
    IF k = Len(file) THEN all ELSE BuildList(SubSeq(file, 1, k), 1, <<>>)

\* lst without its q-th record
Without(lst, q) == SubSeq(lst, 1, q - 1) \o SubSeq(lst, q + 1, Len(lst))

\* Positions in lst of the arrays that record e names as members
MemberPositions(lst, e) ==
    {p \in 1..Len(lst) :
        \E m \in 1..Len(e.members) : e.members[m] = lst[p].devnm}

\* after is before with one record for the array d put in: in front of the
\* earliest of the records its members name, at the tail when they name none
SplicedIn(before, after, d) ==
    /\ Len(after) = Len(before) + 1
    /\ \E q \in 1..Len(after) :
          /\ after[q].devnm = d
          /\ Without(after, q) = before
          /\ LET P == MemberPositions(before, after[q])
             IN  IF P = {}
                 THEN q = Len(after)
                 ELSE q \in P /\ \A p \in P : q <= p

\* C13: the record of every line is spliced in immediately before the
\* earliest-positioned record that one of its members names, the records
\* already in the list keeping their order, and appended at the tail when
\* its members name no record of the list.
C13_SplicedBeforeEarliestMember ==
    ReadReturned =>
        \A k \in 1..Len(file) :
            SplicedIn(ListAfter(k - 1), ListAfter(k), file[k][1])

\* C13 witness: the third line names the array of the second line and then
\* that of the first, and its record is the head of the list, before both.
C13_Witness ==
    /\ ReadReturned
    /\ Len(file) = 3
    /\ Len(file[3]) = 5
    /\ file[3][4] = MemberTok(file[2][1])
    /\ file[3][5] = MemberTok(file[1][1])
    /\ Len(file[1]) = 3
    /\ Len(file[2]) = 3
    /\ all[1].devnm = file[3][1]
    /\ all[2].devnm = file[1][1]
    /\ all[3].devnm = file[2][1]

----------------------------------------------------------------------------
(* Whole lines: mdstat_read on files of one md line whose tokens are drawn  *)
(* from the tokens that matter around bitmap:.                              *)

T_4kb == <<"[", "4", "K", "B", "]">>

WholeTokens ==
    {T_active, T_raid1, T_sda, T_blocks, T_super, T_bitmap, T_slots, T_4kb}

\* The files of one md0 line with n further tokens
WholeFiles(n) == {<< <<N_md0>> \o toks >> : toks \in [1..n -> WholeTokens]}

InitWhole ==
    /\ \E n \in 0..MaxTokens : file \in WholeFiles(n)
    /\ ApiIdle
    /\ LineIdle

SpecWhole == InitWhole /\ [][NextOrder]_vars

\* The line has a bitmap: token
HasBitmap(line) == \E i \in 2..Len(line) : line[i] = T_bitmap

\* The position of the first bitmap: token of the line
FirstBitmap(line) ==
    CHOOSE i \in 2..Len(line) :
        line[i] = T_bitmap /\ \A j \in 2..(i - 1) : line[j] # T_bitmap

\* The record of the line cut off just before its first bitmap: token
RecordOfTruncated(line) ==
    ParseLine(SubSeq(line, 1, FirstBitmap(line) - 1), <<>>).ent

\* C14 as stated: the record of a line with a bitmap: token is the record of
\* the line truncated just before its first bitmap: token.
C14_BitmapStopsParse ==
    (ReadReturned /\ HasBitmap(file[1])) => rv[1] = RecordOfTruncated(file[1])

\* C14 amended: the record of a line whose first bitmap: token does not
\* come directly after a super token is the record of the line truncated
\* just before that bitmap: token.
C14_BitmapNotAfterSuperStopsParse ==
    (/\ ReadReturned
     /\ HasBitmap(file[1])
     /\ file[1][FirstBitmap(file[1]) - 1] # T_super)
        => rv[1] = RecordOfTruncated(file[1])

\* C14 witness: the line md0 [2/1] bitmap: [4KB] has given a record with
\* raid_disks 2.
C14_Witness ==
    /\ ReadReturned
    /\ file[1] = <<N_md0, T_slots, T_bitmap, T_4kb>>
    /\ rv[1].raid_disks = 2

Queries == {"wait", "wait_fd", "busy", "by_component", "by_subdev"}

\* C15: the cache slot mdstat_fd holds one descriptor or none; it goes from
\* absent to present only in a hold-mode read and from present to absent
\* only in close, a hold-mode read made while it is present keeps the
\* descriptor, and non-hold reads and the queries leave it as it is.
C15_CacheSlotTransitions ==
    [][/\ mdstat_fd' \in {-1} \cup (0..MaxFd)
       /\ (mdstat_fd = -1 /\ mdstat_fd' # -1)
              => (call'.op = "read" /\ call'.hold)
       /\ (mdstat_fd # -1 /\ mdstat_fd' = -1) => call'.op = "close"
       /\ (mdstat_fd # -1 /\ call'.op = "read" /\ call'.hold)
              => mdstat_fd' = mdstat_fd
       /\ ((call'.op = "read" /\ ~call'.hold) \/ call'.op \in Queries)
              => mdstat_fd' = mdstat_fd]_vars

\* C15 witness: a hold-mode read made while the slot was present (its lseek
\* on the cached descriptor failed) has returned with the slot present.
C15_Witness ==
    /\ call.op = "read"
    /\ call.hold
    /\ call.io = "lseek"
    /\ rv = <<>>
    /\ mdstat_fd # -1
    /\ mdstat_fd \in fds

----------------------------------------------------------------------------
(* Detaching: mdstat_ent_list_detach_element applied to a list a read has   *)
(* returned and to an element given by its name.  An element whose name is  *)
(* not in the list is an element of no list, or of another one.            *)

\* Position in lst of the first record named d, 0 when there is none
PositionOf(lst, d) ==
    IF \E i \in 1..Len(lst) : lst[i].devnm = d
    THEN CHOOSE i \in 1..Len(lst) :
            lst[i].devnm = d /\ \A j \in 1..(i - 1) : lst[j].devnm # d
    ELSE 0

\* The state after mdstat_ent_list_detach_element(&lst, el): all is the list
\* as it was, heap the list *list_head now heads, rv the element with its
\* next link cleared; res is -1 when assert(ent) failed and the process
\* was aborted
DetachDone(c, lst, el, d) ==
    /\ call' = c
    /\ all' = lst
    /\ heap' = d.list
    /\ rv' = IF d.ok THEN <<lst[el]>> ELSE <<>>
    /\ res' = IF d.ok THEN 0 ELSE -1
    /\ selected' = {}
    /\ UNCHANGED <<file, mdstat_fd, fds>>
    /\ UNCHANGED lineVars

DetachElement(name) ==
    /\ call.op = "read"
    /\ DetachDone([NoCall EXCEPT !.op = "detach", !.name = name],
                  rv, PositionOf(rv, name),
                  mdstat_ent_list_detach_element(rv, PositionOf(rv, name)))

InitDetach ==
    /\ file \in OrderFiles
    /\ ApiIdle
    /\ LineIdle

NextDetach ==
    \/ res # -1 /\ NextOrder
    \/ \E name \in Devs \cup {N_mdx} : DetachElement(name)

SpecDetach == InitDetach /\ [][NextDetach]_vars

\* C16: detaching an element that is in the list leaves the list without
\* that element, the other records in their order, and the element alone
\* with no next; detaching an element that is not in the list, or from the
\* empty list, fails the assertion.
C16_DetachRemovesExactlyElement ==
    call.op = "detach" =>
        LET P == {p \in 1..Len(all) : all[p].devnm = call.name}
        IN  IF P # {}
            THEN /\ res = 0
                 /\ \E p \in P : rv = <<all[p]>> /\ heap = Without(all, p)
            ELSE res = -1

\* C16 witness: the middle element of a list of three has been detached.
C16_Witness ==
    /\ call.op = "detach"
    /\ Len(all) = 3
    /\ rv = <<all[2]>>
    /\ heap = <<all[1], all[3]>>

\* C17: the record mdstat_find_by_member_name finds for mdstat_by_component
\* is the first record of the list, in list order, that lists the name as a
\* member and is no external subarray; nothing is found when there is none.
C17_FindsFirstHolder ==
    call.op = "by_component" =>
        LET H == {i \in 1..Len(all) : HoldsComponent(all[i], call.name)}
        IN  IF H = {}
            THEN rv = <<>>
            ELSE \E i \in H : rv = <<all[i]>> /\ \A j \in H : i <= j

\* C17 witness: the second of three records was found; the first is a
\* subarray that lists the member and the third lists it too.
C17_Witness ==
    /\ call.op = "by_component"
    /\ Len(all) = 3
    /\ ExternalSubarray(all[1])
    /\ \E k \in 1..Len(all[1].members) : all[1].members[k] = call.name
    /\ rv = <<all[2]>>
    /\ HoldsComponent(all[3], call.name)

\* C18: in mdstat_by_component and mdstat_by_subdev the assertion of the
\* detach never fails, whatever the read gave; a record that is returned is
\* a record of the list that was read and is not among the records freed.
C18_DetachNeverAsserts ==
    call.op \in {"by_component", "by_subdev"} =>
        /\ res = 0
        /\ heap = rv
        /\ rv # <<>> => Len(rv) = 1 /\ \E i \in 1..Len(all) : all[i] = rv[1]
        /\ call.io # "ok" => rv = <<>> /\ all = <<>>

\* C18 witness: mdstat_by_subdev has returned the last of three records,
\* and it is the one record still allocated.
C18_Witness ==
    /\ call.op = "by_subdev"
    /\ Len(all) = 3
    /\ rv = <<all[3]>>
    /\ heap = rv
    /\ res = 0

\* C19 as stated: percent is assigned at most once on a line; after the
\* token that assigned it no token changes percent or resync.
C19_PercentAssignedOnce ==
    [][(pc = "tokens" /\ ps.pctTok # NULL)
          => /\ ps'.pctTok = ps.pctTok
             /\ ps'.ent.percent = ps.ent.percent
             /\ ps'.ent.resync = ps.ent.resync]_vars

\* C19 amended: once percent is no longer RESYNC_NONE, no later token of the
\* line assigns percent or changes percent, resync or the kind classified.
C19_PercentFrozenOnceSet ==
    [][(pc = "tokens" /\ ps.ent.percent # RESYNC_NONE)
          => /\ ps'.pctTok = ps.pctTok
             /\ ps'.ent.percent = ps.ent.percent
             /\ ps'.ent.resync = ps.ent.resync
             /\ ps'.kind = ps.kind]_vars

\* C19 witness: the token resync=37% has been read after recovery=DELAYED
\* had set percent, and percent and resync are still those of the first.
C19_Witness ==
    /\ pc = "tokens"
    /\ ntok = 2
    /\ w = T_resyncpct
    /\ ps.pctTok = T_recovdelayed
    /\ ps.ent.percent = RESYNC_DELAYED
    /\ ps.ent.resync = 0
    /\ ps.kind = "recovery"

\* C20: after every call the descriptors the module has open are the cached
\* descriptor, when the slot is present, and no other: a read closes every
\* descriptor it opened or duplicated but the one it stores in the slot.
C20_OnlyCachedDescriptorOpen ==
    fds = (IF mdstat_fd = -1 THEN {} ELSE {mdstat_fd})

====
